---------------------------- MODULE Spec2Model ----------------------------
(***************************************************************************)
(* Model of vndb_distribution_analysis.py: a sequential script that        *)
(* queries the VNDB API (Steps 1, 2, 3, 5), reduces the answers and writes *)
(* two JSON files.  The API is the environment: it answers from a          *)
(* catalogue of visual novels fixed at the start of the run, and may       *)
(* deviate from the nominal answer (non-200 status, empty body, missing    *)
(* key, missing field) a bounded number of times per run.                  *)
(***************************************************************************)
EXTENDS Integers, Sequences, FiniteSets, TLC

(* ------------------------------ bounds --------------------------------- *)
\* largest catalogue the API serves (records matching votecount > 0)
MaxCatalogue == 10
\* records per page the API returns for the page request ("results": 100 in
\* the source, scaled down)
PageSize == 2
\* deviating API answers per run
MaxAnomalies == 1
\* bounds of the caller-supplied triples fed to the Step-1 filter code
MaxBound == 3
\* sales bounds fed to the Step-5 filter code
MaxSales == 160
\* vote counts the filters are probed with
MaxProbe == 10001

(* ------------------------- program constants --------------------------- *)
\* Python's None, where an integer is expected (all program integers are >= 0)
None == -1
total_vns == 58868
PageCount == 5
SalesPerVote == 75
OpenMax == 999999
StatusOK == 200
StatusError == 500

Truthy(x) == x # None /\ x # 0

(* ------------------------------ filters -------------------------------- *)
\* ["votecount", ">", n] and the like
Cmp(field, op, value) == [op |-> op, field |-> field, value |-> value, args |-> <<>>]
\* ["and", c1, c2, ...]
AndOf(cs) == [op |-> "and", field |-> "", value |-> 0, args |-> cs]

votecount_ranges ==
  << <<10000, None, "10,000+">>,
     <<5000, 10000, "5,000-10,000">>,
     <<2000, 5000, "2,000-5,000">>,
     <<1000, 2000, "1,000-2,000">>,
     <<500, 1000, "500-1,000">>,
     <<250, 500, "250-500">>,
     <<100, 250, "100-250">>,
     <<50, 100, "50-100">>,
     <<25, 50, "25-50">>,
     <<10, 25, "10-25">>,
     <<5, 10, "5-10">>,
     <<1, 5, "1-5">>,
     <<0, 1, "0-1">> >>

commercial_filters ==
  << <<"All Japanese VNs", Cmp("olang", "=", "ja")>>,
     <<"Japanese + Short or longer",
       AndOf(<<Cmp("olang", "=", "ja"), Cmp("length", ">=", 2)>>)>>,
     <<"Japanese + Medium or longer",
       AndOf(<<Cmp("olang", "=", "ja"), Cmp("length", ">=", 3)>>)>>,
     <<"Japanese + Some engagement",
       AndOf(<<Cmp("olang", "=", "ja"), Cmp("votecount", ">", 10)>>)>>,
     <<"Japanese + Medium + Engagement",
       AndOf(<<Cmp("olang", "=", "ja"), Cmp("length", ">=", 3),
               Cmp("votecount", ">", 10)>>)>> >>

sales_estimate_ranges ==
  << <<100000, None, "100k+">>,
     <<50000, 100000, "50k-100k">>,
     <<25000, 50000, "25k-50k">>,
     <<10000, 25000, "10k-25k">>,
     <<5000, 10000, "5k-10k">>,
     <<1000, 5000, "1k-5k">> >>

\* Step 1, lines 53-56: `if max_votes:` is a truthiness test
step1_filters_ge(min_votes, max_votes) ==
  IF Truthy(max_votes)
    THEN AndOf(<<Cmp("votecount", ">=", min_votes), Cmp("votecount", "<=", max_votes)>>)
    ELSE Cmp("votecount", ">=", min_votes)

step1_filters(min_votes, max_votes) ==
  IF Truthy(max_votes)
    THEN AndOf(<<Cmp("votecount", ">", min_votes), Cmp("votecount", "<=", max_votes)>>)
    ELSE Cmp("votecount", ">", min_votes)

\* Step 5, lines 171-172: floor division of the sales bounds
step5_min_votes(min_sales) == min_sales \div SalesPerVote

step5_max_votes_ceil(max_sales) ==
  IF Truthy(max_sales) THEN (max_sales + SalesPerVote - 1) \div SalesPerVote ELSE None

step5_max_votes(max_sales) ==
  IF Truthy(max_sales) THEN max_sales \div SalesPerVote ELSE None

\* Step 5, lines 174-177
step5_filters(min_votes, max_votes) ==
  IF Truthy(max_votes)
    THEN AndOf(<<Cmp("votecount", ">", min_votes), Cmp("votecount", "<=", max_votes)>>)
    ELSE Cmp("votecount", ">", min_votes)

(* ----------------------- the API (environment) ------------------------- *)
\* what the API makes of one comparison of the filter grammar
EvalCmp(c, rec) ==
  CASE c.field = "votecount" /\ c.op = ">"  -> rec.votecount > c.value
    [] c.field = "votecount" /\ c.op = ">=" -> rec.votecount >= c.value
    [] c.field = "votecount" /\ c.op = "<=" -> rec.votecount <= c.value
    [] c.field = "votecount" /\ c.op = "<"  -> rec.votecount < c.value
    [] c.field = "length" /\ c.op = ">="    -> rec.length >= c.value
    [] c.field = "olang" /\ c.op = "="      -> rec.olang = c.value
    [] OTHER -> FALSE

Eval(f, rec) ==
  IF f.op = "and"
    THEN \A k \in DOMAIN f.args : EvalCmp(f.args[k], rec)
    ELSE EvalCmp(f, rec)

\* a filter applied to a record with vote count v
Selects(f, v) == Eval(f, [id |-> 0, votecount |-> v, olang |-> "ja", length |-> 3])

\* the catalogue of n visual novels, sorted by vote count, highest first
CatalogueOf(n) ==
  [k \in 1..n |-> [id |-> k, votecount |-> n - k + 1,
                   olang |-> IF k % 2 = 1 THEN "ja" ELSE "en",
                   length |-> 1 + (k % 5)]]

RECURSIVE SelectSeq2(_, _)
SelectSeq2(s, f) ==
  IF s = <<>> THEN <<>>
  ELSE IF Eval(f, Head(s)) THEN <<Head(s)>> \o SelectSeq2(Tail(s), f)
       ELSE SelectSeq2(Tail(s), f)

\* a record as the API returns it: the `fields` that were asked for
Row(rec, withVotes) == [id |-> rec.id, votecount |-> IF withVotes THEN rec.votecount ELSE None]

Rows(s, withVotes) == [k \in DOMAIN s |-> Row(s[k], withVotes)]

Min2(a, b) == IF a < b THEN a ELSE b

PageOf(s, page, size) == SubSeq(s, (page - 1) * size + 1, Min2(page * size, Len(s)))

\* JSON objects: the keys present, and the values of the keys the script reads
Dict(keys, count, results) == [isNone |-> FALSE, keys |-> keys, count |-> count, results |-> results]
NoneResult == [isNone |-> TRUE, keys |-> {}, count |-> 0, results |-> <<>>]
EmptyDict == Dict({}, 0, <<>>)

\* the API's answer to a payload when nothing goes wrong
NominalBody(cat, payload) ==
  LET hit == SelectSeq2(cat, payload.filters) IN
  IF payload.count
    THEN Dict({"results", "more", "count"}, Len(hit), Rows(hit, FALSE))
    ELSE Dict({"results", "more"}, 0, Rows(PageOf(hit, payload.page, payload.results), TRUE))

OmitVotes(results, j) ==
  [k \in DOMAIN results |-> IF k = j THEN [results[k] EXCEPT !.votecount = None] ELSE results[k]]

\* the deviating answers: a non-200 status, an empty JSON object, an object
\* without the key the script reads, a record without its votecount field
Deviations(cat, payload) ==
  LET nom == NominalBody(cat, payload) IN
     {[status |-> StatusError, body |-> EmptyDict],
      [status |-> StatusOK, body |-> EmptyDict],
      [status |-> StatusOK, body |-> Dict({"more"}, 0, <<>>)]}
     \cup
     (IF payload.count THEN {}
      ELSE {[status |-> StatusOK, body |-> [nom EXCEPT !.results = OmitVotes(nom.results, j)]] :
              j \in DOMAIN nom.results})

Responses(cat, payload, budget) ==
  {[status |-> StatusOK, body |-> NominalBody(cat, payload)]}
  \cup (IF budget > 0 THEN Deviations(cat, payload) ELSE {})

(* ------------------------- query_vndb, lines 10-20 --------------------- *)
query_vndb_sleep_on_success(response) ==
  IF response.status = StatusOK
    THEN [ret |-> response.body, trace |-> <<"post", "sleep", "return">>]
    ELSE [ret |-> NoneResult, trace |-> <<"post", "print", "return">>]

query_vndb(response) ==
  IF response.status = StatusOK
    THEN [ret |-> response.body, trace |-> <<"post", "sleep", "return">>]
    ELSE [ret |-> NoneResult, trace |-> <<"post", "sleep", "print", "return">>]

\* `if result:` on a dict or None
ResultTruthy(result) == ~result.isNone /\ result.keys # {}
\* result.get('count', 0)
GetCount(result) == IF "count" \in result.keys THEN result.count ELSE 0

CountPayload(filters) ==
  [filters |-> filters, fields |-> "id", count |-> TRUE, sort |-> "", reverse |-> FALSE,
   results |-> 0, page |-> 0]

PagePayload(page) ==
  [filters |-> Cmp("votecount", ">", 0),
   fields |-> "id, title, votecount, popularity, rating, olang, length",
   count |-> FALSE, sort |-> "votecount", reverse |-> TRUE,
   results |-> PageSize, page |-> page]

(* --------------------------- Step 4 arithmetic ------------------------- *)
RECURSIVE votecounts_of(_)
\* [vn['votecount'] for vn in top_vns if vn.get('votecount')]
votecounts_of(vns) ==
  IF vns = <<>> THEN <<>>
  ELSE IF Truthy(Head(vns).votecount)
         THEN <<Head(vns).votecount>> \o votecounts_of(Tail(vns))
         ELSE votecounts_of(Tail(vns))

RECURSIVE SumSeq(_)
SumSeq(a) == IF a = <<>> THEN 0 ELSE Head(a) + SumSeq(Tail(a))

RECURSIVE py_max(_)
py_max(a) == IF Len(a) = 1 THEN a[1]
             ELSE LET m == py_max(Tail(a)) IN IF a[1] >= m THEN a[1] ELSE m

RECURSIVE py_min(_)
py_min(a) == IF Len(a) = 1 THEN a[1]
             ELSE LET m == py_min(Tail(a)) IN IF a[1] <= m THEN a[1] ELSE m

RECURSIVE Insert(_, _)
Insert(x, s) == IF s = <<>> THEN <<x>>
                ELSE IF x <= Head(s) THEN <<x>> \o s
                     ELSE <<Head(s)>> \o Insert(x, Tail(s))

RECURSIVE Sorted(_)
Sorted(a) == IF a = <<>> THEN <<>> ELSE Insert(Head(a), Sorted(Tail(a)))

\* a Python float, kept as the quotient num/den it is the nearest double of
Float(num, den) == [num |-> num, den |-> den]

np_mean(a) == Float(SumSeq(a), Len(a))

np_median_upper(a) ==
  LET s == Sorted(a)
      n == Len(a)
  IN Float(s[(n \div 2) + 1], 1)

\* numpy: the middle element of the sorted values, or the mean of the two middle
np_median(a) ==
  LET s == Sorted(a)
      n == Len(a)
  IN IF n % 2 = 1 THEN Float(s[(n + 1) \div 2], 1)
     ELSE Float(s[n \div 2] + s[(n \div 2) + 1], 2)

\* list.extend, line 117
extend_replace(acc, results) == results

extend(acc, results) == acc \o results

\* the Step-3 loop control, lines 106 and 116-121: TRUE when another page is asked for
step3_continue_always(ok, page) == page < PageCount

step3_continue(ok, page) == ok /\ page < PageCount


(* ------------------------------- state --------------------------------- *)
VARIABLES
  pc,              \* the statement the script is at
  i,               \* the index of the running loop (1-based), the page in Step 3
  catalogue,       \* environment: the API's visual novels, by vote count
  budget,          \* environment: deviating answers still possible
  votecount_data,  \* line 51
  commercial_data, \* line 87
  top_vns,         \* line 105
  votecounts,      \* line 134: bound only once Step 4 has assigned it
  file_top500,     \* vndb_top500.json
  file_summary,    \* vndb_analysis_summary.json
  error,           \* the uncaught exception that ended the run, if any
  requests,        \* history: the calls of query_vndb, in order, as <<step, index>>
  sleeps,          \* history: the time.sleep(0.15) calls made
  last_call,       \* history: the latest call of query_vndb
  page_log,        \* history: the Step-3 pages asked for and what came back
  f_src,           \* filter construction alone: where the triple came from
  f_idx,           \*   its index in the declared list (0: not declared)
  f_in_lo,         \*   the triple's lower bound as given to the step
  f_in_hi,         \*   the triple's upper bound as given to the step, or None
  f_min_votes,     \*   min_votes
  f_max_votes,     \*   max_votes
  f_filters        \*   filters

pipeline_vars == <<pc, i, catalogue, budget, votecount_data, commercial_data, top_vns,
                   votecounts, file_top500, file_summary, error, requests, sleeps,
                   last_call, page_log>>
filter_vars == <<f_src, f_idx, f_in_lo, f_in_hi, f_min_votes, f_max_votes, f_filters>>
vars == <<pipeline_vars, filter_vars>>

Unbound == [defined |-> FALSE, val |-> <<>>]
NoFile == [written |-> FALSE, data |-> <<>>]
NoCall == [payload |-> CountPayload(Cmp("", "", 0)), status |-> 0, body |-> EmptyDict,
           ret |-> NoneResult, trace |-> <<>>]

FilterIdle ==
  /\ f_src = "none" /\ f_idx = 0 /\ f_in_lo = 0 /\ f_in_hi = None
  /\ f_min_votes = 0 /\ f_max_votes = None /\ f_filters = Cmp("", "", 0)

PipelineAt(start) ==
  /\ pc = start
  /\ i = 1
  /\ budget = MaxAnomalies
  /\ votecount_data = <<>>
  /\ commercial_data = <<>>
  /\ top_vns = <<>>
  /\ votecounts = Unbound
  /\ file_top500 = NoFile
  /\ file_summary = NoFile
  /\ error = ""
  /\ requests = <<>>
  /\ sleeps = 0
  /\ last_call = NoCall
  /\ page_log = <<>>

Init ==
  /\ \E n \in 0..MaxCatalogue : catalogue = CatalogueOf(n)
  /\ PipelineAt("step1")
  /\ FilterIdle

(* ---------------------------- the pipeline ----------------------------- *)
CountSleeps(trace) == Cardinality({k \in DOMAIN trace : trace[k] = "sleep"})

\* one call of query_vndb: what it leaves in the histories and in the environment
Issue(id, payload, response) ==
  LET r == query_vndb(response) IN
  /\ requests' = Append(requests, id)
  /\ sleeps' = sleeps + CountSleeps(r.trace)
  /\ last_call' = [payload |-> payload, status |-> response.status,
                   body |-> response.body, ret |-> r.ret, trace |-> r.trace]
  /\ budget' = IF response.body = NominalBody(catalogue, payload) /\ response.status = StatusOK
                 THEN budget ELSE budget - 1

\* lines 64-71
step1_record(data, result, triple) ==
  IF ResultTruthy(result)
    THEN Append(data, [range |-> triple[3], min |-> triple[1],
                       max |-> IF Truthy(triple[2]) THEN triple[2] ELSE OpenMax,
                       count |-> GetCount(result)])
    ELSE data

\* lines 95-97
step2_record(data, result, label) ==
  IF ResultTruthy(result)
    THEN Append(data, [filter |-> label, count |-> GetCount(result)])
    ELSE data

\* lines 52-72, one iteration
Step1Query ==
  /\ pc = "step1"
  /\ LET t == votecount_ranges[i]
         payload == CountPayload(step1_filters(t[1], t[2]))
     IN \E response \in Responses(catalogue, payload, budget) :
          /\ Issue(<<"step1", i>>, payload, response)
          /\ votecount_data' = step1_record(votecount_data, query_vndb(response).ret, t)
  /\ IF i < Len(votecount_ranges)
       THEN i' = i + 1 /\ pc' = pc
       ELSE i' = 1 /\ pc' = "step2"
  /\ UNCHANGED <<catalogue, commercial_data, top_vns, votecounts, file_top500,
                 file_summary, error, page_log>>
  /\ UNCHANGED filter_vars

\* lines 88-98, one iteration
Step2Query ==
  /\ pc = "step2"
  /\ LET t == commercial_filters[i]
         payload == CountPayload(t[2])
     IN \E response \in Responses(catalogue, payload, budget) :
          /\ Issue(<<"step2", i>>, payload, response)
          /\ commercial_data' = step2_record(commercial_data, query_vndb(response).ret, t[1])
  /\ IF i < Len(commercial_filters)
       THEN i' = i + 1 /\ pc' = pc
       ELSE i' = 1 /\ pc' = "step3"
  /\ UNCHANGED <<catalogue, votecount_data, top_vns, votecounts, file_top500,
                 file_summary, error, page_log>>
  /\ UNCHANGED filter_vars

\* line 116: `if result and 'results' in result`
PageOk(result) == ResultTruthy(result) /\ "results" \in result.keys

\* lines 106-121, one iteration
Step3Page ==
  /\ pc = "step3"
  /\ LET payload == PagePayload(i) IN
     \E response \in Responses(catalogue, payload, budget) :
       LET result == query_vndb(response).ret
           ok == PageOk(result)
       IN /\ Issue(<<"step3", i>>, payload, response)
          /\ top_vns' = IF ok THEN extend(top_vns, result.results) ELSE top_vns
          /\ page_log' = Append(page_log, [page |-> i, ok |-> ok,
                                           results |-> IF ok THEN result.results ELSE <<>>])
          /\ IF step3_continue(ok, i)
               THEN i' = i + 1 /\ pc' = pc
               ELSE i' = 1 /\ pc' = "save_top"
  /\ UNCHANGED <<catalogue, votecount_data, commercial_data, votecounts, file_top500,
                 file_summary, error>>
  /\ UNCHANGED filter_vars

\* json.dump(top_vns, f, indent=2): the file holds the list as it is now
json_file(value) == [written |-> TRUE, data |-> value]

\* lines 124-126
SaveTop ==
  /\ pc = "save_top"
  /\ file_top500' = json_file(top_vns)
  /\ pc' = "step4"
  /\ UNCHANGED <<i, catalogue, budget, votecount_data, commercial_data, top_vns, votecounts,
                 file_summary, error, requests, sleeps, last_call, page_log>>
  /\ UNCHANGED filter_vars

\* lines 133-145: max() of an empty list raises ValueError
Step4Stats ==
  /\ pc = "step4"
  /\ IF top_vns # <<>>
       THEN /\ votecounts' = [defined |-> TRUE, val |-> votecounts_of(top_vns)]
            /\ IF votecounts_of(top_vns) = <<>>
                 THEN pc' = "crashed" /\ error' = "ValueError"
                 ELSE pc' = "step5" /\ error' = error
       ELSE /\ votecounts' = votecounts
            /\ pc' = "step5" /\ error' = error
  /\ UNCHANGED <<i, catalogue, budget, votecount_data, commercial_data, top_vns, file_top500,
                 file_summary, requests, sleeps, last_call, page_log>>
  /\ UNCHANGED filter_vars

\* lines 170-187, one iteration: the count is printed, nothing is kept
Step5Query ==
  /\ pc = "step5"
  /\ LET t == sales_estimate_ranges[i]
         min_votes == step5_min_votes(t[1])
         max_votes == step5_max_votes(t[2])
         payload == CountPayload(step5_filters(min_votes, max_votes))
     IN \E response \in Responses(catalogue, payload, budget) :
          Issue(<<"step5", i>>, payload, response)
  /\ IF i < Len(sales_estimate_ranges)
       THEN i' = i + 1 /\ pc' = pc
       ELSE i' = 1 /\ pc' = "summary"
  /\ UNCHANGED <<catalogue, votecount_data, commercial_data, top_vns, votecounts,
                 file_top500, file_summary, error, page_log>>
  /\ UNCHANGED filter_vars

\* lines 205-210
top_500_stats(vc) ==
  [max_votes |-> IF vc # <<>> THEN py_max(vc) ELSE 0,
   median_votes |-> IF vc # <<>> THEN np_median(vc) ELSE Float(0, 1),
   mean_votes |-> IF vc # <<>> THEN np_mean(vc) ELSE Float(0, 1),
   min_votes |-> IF vc # <<>> THEN py_min(vc) ELSE 0]

\* lines 201-214: reading the unbound name votecounts raises NameError
SaveSummary ==
  /\ pc = "summary"
  /\ IF votecounts.defined
       THEN /\ file_summary' = json_file([total_vns |-> total_vns,
                                          votecount_distribution |-> votecount_data,
                                          commercial_counts |-> commercial_data,
                                          top_500_stats |-> top_500_stats(votecounts.val)])
            /\ pc' = "done" /\ error' = error
       ELSE /\ file_summary' = file_summary
            /\ pc' = "crashed" /\ error' = "NameError"
  /\ UNCHANGED <<i, catalogue, budget, votecount_data, commercial_data, top_vns, votecounts,
                 file_top500, requests, sleeps, last_call, page_log>>
  /\ UNCHANGED filter_vars

Next ==
  \/ Step1Query
  \/ Step2Query
  \/ Step3Page
  \/ SaveTop
  \/ Step4Stats
  \/ Step5Query
  \/ SaveSummary

Spec == Init /\ [][Next]_vars

(* ---------------------- filter construction alone ---------------------- *)
(* The code of lines 52-56 and 170-177 as functions of the triple: applied *)
(* once to a declared triple, or to any triple a caller could declare.     *)

InitFilter ==
  /\ catalogue = CatalogueOf(0)
  /\ PipelineAt("off")
  /\ FilterIdle

BuildStep1(src, idx, lo, hi) ==
  /\ f_src' = src /\ f_idx' = idx
  /\ f_in_lo' = lo /\ f_in_hi' = hi
  /\ f_min_votes' = lo /\ f_max_votes' = hi
  /\ f_filters' = step1_filters(lo, hi)
  /\ UNCHANGED pipeline_vars

BuildStep5(src, idx, lo, hi) ==
  /\ f_src' = src /\ f_idx' = idx
  /\ f_in_lo' = lo /\ f_in_hi' = hi
  /\ f_min_votes' = step5_min_votes(lo)
  /\ f_max_votes' = step5_max_votes(hi)
  /\ f_filters' = step5_filters(step5_min_votes(lo), step5_max_votes(hi))
  /\ UNCHANGED pipeline_vars

\* Step 1 on a declared triple
DeclaredRange ==
  /\ f_src = "none"
  /\ \E k \in DOMAIN votecount_ranges :
       BuildStep1("step1", k, votecount_ranges[k][1], votecount_ranges[k][2])

\* Step 5 on a declared triple
DeclaredSales ==
  /\ f_src = "none"
  /\ \E k \in DOMAIN sales_estimate_ranges :
       BuildStep5("step5", k, sales_estimate_ranges[k][1], sales_estimate_ranges[k][2])

\* Step 1 on any triple
AnyRange ==
  /\ f_src = "none"
  /\ \E lo \in 0..MaxBound, hi \in {None} \cup 0..MaxBound :
       BuildStep1("range", 0, lo, hi)

\* Step 5 on any triple
AnySales ==
  /\ f_src = "none"
  /\ \E lo \in 0..MaxSales, hi \in {None} \cup 0..MaxSales :
       BuildStep5("sales", 0, lo, hi)

NextFilter ==
  \/ DeclaredRange
  \/ DeclaredSales
  \/ AnyRange
  \/ AnySales

SpecFilter == InitFilter /\ [][NextFilter]_vars


\* the filter Step 1 builds for the k-th declared range
Step1FilterAt(k) == step1_filters(votecount_ranges[k][1], votecount_ranges[k][2])

\* the filter Step 5 builds for the k-th declared sales range
Step5FilterAt(k) ==
  step5_filters(step5_min_votes(sales_estimate_ranges[k][1]),
                step5_max_votes(sales_estimate_ranges[k][2]))

(* ------------------------------ properties ----------------------------- *)
Finished == pc \in {"done", "crashed"}
Issued(id) == \E k \in DOMAIN requests : requests[k] = id

\* C1: Steps 1 and 2 record one entry per declared triple/predicate, in declared
\* order, whatever the API answers: once Step 1 is over votecount_data has 13
\* entries and once Step 2 is over commercial_data has 5 (a failed call leaving
\* an entry with count 0).
C1_OneEntryPerBucket ==
  /\ pc = "step1" => Len(votecount_data) = i - 1
  /\ pc \notin {"step1", "off"} =>
       /\ Len(votecount_data) = Len(votecount_ranges)
       /\ \A k \in DOMAIN votecount_data : votecount_data[k].range = votecount_ranges[k][3]
  /\ pc = "step2" => Len(commercial_data) = i - 1
  /\ pc \notin {"step1", "step2", "off"} =>
       /\ Len(commercial_data) = Len(commercial_filters)
       /\ \A k \in DOMAIN commercial_data : commercial_data[k].filter = commercial_filters[k][1]

\* C2 as stated: a page that failed or came back with fewer than the page size
\* of records is the last page asked for.
C2_StopAfterShortOrFailedPage ==
  \A k \in DOMAIN page_log :
    (~page_log[k].ok \/ Len(page_log[k].results) < PageSize) => k = Len(page_log)

\* C2 amended: a page whose call failed or whose answer has no results array is
\* the last page asked for; pages are asked for in the order 1, 2, ..., at most
\* PageCount of them, and the loop is left at once after such a page.
C2_StopAfterFailedPage ==
  /\ Len(page_log) <= PageCount
  /\ \A k \in DOMAIN page_log :
       /\ page_log[k].page = k
       /\ ~page_log[k].ok => k = Len(page_log) /\ pc # "step3"

C2_Witness ==
  /\ Finished
  /\ Len(page_log) \in 2..(PageCount - 1)
  /\ ~page_log[Len(page_log)].ok

\* C3: the script never ends in an uncaught exception: whatever the API answers
\* it reaches the end, and then both files are written.
C3_NoUncaughtFailure ==
  /\ pc # "crashed"
  /\ pc = "done" => file_top500.written /\ file_summary.written

\* the upper vote bound the C4 triple stands for
C4_UpperVotes ==
  IF f_src \in {"step5", "sales"} THEN f_in_hi \div SalesPerVote ELSE f_in_hi

C5_Step1Partition ==
  f_src = "step1" =>
    /\ \A v \in 0..MaxProbe :
         /\ Selects(f_filters, v) =>
              \A k \in DOMAIN votecount_ranges : k # f_idx => ~Selects(Step1FilterAt(k), v)
         /\ v >= 1 => \E k \in DOMAIN votecount_ranges : Selects(Step1FilterAt(k), v)
    /\ ~Selects(f_filters, f_in_lo)
    /\ f_in_hi # None => Selects(f_filters, f_in_hi) /\ ~Selects(f_filters, f_in_hi + 1)

C5_Witness ==
  /\ f_src = "step1" /\ f_idx = 2
  /\ Selects(f_filters, f_in_hi)
  /\ ~Selects(f_filters, f_in_lo)
  /\ Selects(Step1FilterAt(3), f_in_lo)

HasAt(trace, e, k) == k \in DOMAIN trace /\ trace[k] = e

\* C6: every call of query_vndb sleeps once, after the request is posted and
\* before it returns, whatever the status; it returns the decoded body exactly
\* when the status is 200 and None otherwise.
C6_DelayAndReturn ==
  /\ sleeps = Len(requests)
  /\ requests # <<>> =>
       /\ \E a, b \in DOMAIN last_call.trace :
            /\ a < b /\ b < Len(last_call.trace)
            /\ HasAt(last_call.trace, "post", a)
            /\ HasAt(last_call.trace, "sleep", b)
            /\ HasAt(last_call.trace, "return", Len(last_call.trace))
       /\ last_call.status = StatusOK => last_call.ret = last_call.body
       /\ last_call.status # StatusOK => last_call.ret.isNone
       /\ last_call.ret.isNone => last_call.status # StatusOK

C6_Witness ==
  /\ last_call.status = StatusError
  /\ last_call.ret.isNone
  /\ sleeps = Len(requests)
  /\ \E k \in DOMAIN requests : k < Len(requests)

\* the fetched records that carry a vote count, by position
Voted == {k \in DOMAIN top_vns : top_vns[k].votecount # None}
VoteAt(k) == top_vns[k].votecount

RECURSIVE SumOver(_)
SumOver(S) == IF S = {} THEN 0
              ELSE LET k == CHOOSE x \in S : TRUE IN VoteAt(k) + SumOver(S \ {k})

\* the r-th smallest vote count among the records that carry one
OrderStat(r) ==
  CHOOSE x \in {VoteAt(k) : k \in Voted} :
    /\ Cardinality({k \in Voted : VoteAt(k) <= x}) >= r
    /\ Cardinality({k \in Voted : VoteAt(k) < x}) < r

\* C7: when some fetched record carries a vote count, the statistics in the
\* summary are the maximum, minimum, arithmetic mean and median of the vote
\* counts of exactly the fetched records that carry one.
C7_TextbookStatistics ==
  (file_summary.written /\ Voted # {}) =>
    LET st == file_summary.data.top_500_stats
        n == Cardinality(Voted)
    IN /\ \E k \in Voted : VoteAt(k) = st.max_votes
       /\ \A k \in Voted : VoteAt(k) <= st.max_votes
       /\ \E k \in Voted : VoteAt(k) = st.min_votes
       /\ \A k \in Voted : VoteAt(k) >= st.min_votes
       /\ st.mean_votes.den > 0
       /\ st.mean_votes.num * n = SumOver(Voted) * st.mean_votes.den
       /\ st.median_votes.den > 0
       /\ st.median_votes.num * 2
            = (OrderStat((n + 1) \div 2) + OrderStat((n \div 2) + 1)) * st.median_votes.den

C7_Witness ==
  /\ file_summary.written
  /\ \E k \in DOMAIN top_vns : k \notin Voted
  /\ Cardinality(Voted) = 4
  /\ file_summary.data.top_500_stats.median_votes.den = 2
  /\ file_summary.data.top_500_stats.max_votes > file_summary.data.top_500_stats.min_votes

RECURSIVE ConcatResults(_, _)
\* the results of the first m logged pages, in page order
ConcatResults(log, m) ==
  IF m = 0 THEN <<>> ELSE ConcatResults(log, m - 1) \o log[m].results

\* the pages before the first page that failed or had no results array
PagesKept ==
  IF \E k \in DOMAIN page_log : ~page_log[k].ok
    THEN (CHOOSE k \in DOMAIN page_log :
            ~page_log[k].ok /\ \A j \in 1..(k - 1) : page_log[j].ok) - 1
    ELSE Len(page_log)

\* C8: top_vns is the concatenation, in page order, of the results of the pages
\* before the first one that failed or had no results array; when none did, all
\* PageCount pages are in it; it holds at most PageCount * PageSize records; and
\* vndb_top500.json holds that list, partial or empty as it may be.
C8_TopVnsIsConcatenation ==
  /\ top_vns = ConcatResults(page_log, PagesKept)
  /\ Len(top_vns) <= PageCount * PageSize
  /\ pc \notin {"step1", "step2", "step3", "off"} =>
       (PagesKept = Len(page_log) => Len(page_log) = PageCount)
  /\ pc \notin {"step1", "step2", "step3", "save_top", "off"} =>
       file_top500 = [written |-> TRUE, data |-> top_vns]

C8_Witness ==
  /\ file_top500.written
  /\ Len(file_top500.data) = 2 * PageSize
  /\ Len(page_log) = 3
  /\ ~page_log[3].ok
  /\ file_top500.data[1].votecount > file_top500.data[Len(file_top500.data)].votecount

\* C9: no request is retried and none is skipped: no call is issued twice, the
\* pages are asked for in increasing order, a run makes at most 29 calls, and
\* when the run is over each of the 13 Step-1, 5 Step-2 and 6 Step-5 queries
\* has been issued.
C9_EachQueryOnce ==
  /\ \A a, b \in DOMAIN requests : a < b => requests[a] # requests[b]
  /\ \A a, b \in DOMAIN requests :
       (a < b /\ requests[a][1] = "step3" /\ requests[b][1] = "step3")
         => requests[a][2] < requests[b][2]
  /\ Len(requests) <= Len(votecount_ranges) + Len(commercial_filters) + PageCount
                        + Len(sales_estimate_ranges)
  /\ Finished =>
       /\ \A k \in DOMAIN votecount_ranges : Issued(<<"step1", k>>)
       /\ \A k \in DOMAIN commercial_filters : Issued(<<"step2", k>>)
       /\ \A k \in DOMAIN sales_estimate_ranges : Issued(<<"step5", k>>)

\* C10: the filter Step 5 builds for a declared sales range selects a vote
\* count v exactly when v * 75 lies in the sales range (above min_sales, and
\* not above max_sales when there is one), and no vote count is selected by
\* the filters of two declared sales ranges.
C10_SalesBoundsExact ==
  f_src = "step5" =>
    \A v \in 0..MaxProbe :
      /\ Selects(f_filters, v)
           <=> (f_in_lo < v * SalesPerVote
                /\ (f_in_hi = None \/ v * SalesPerVote <= f_in_hi))
      /\ Selects(f_filters, v) =>
           \A k \in DOMAIN sales_estimate_ranges :
             k # f_idx => ~Selects(Step5FilterAt(k), v)

C10_Witness ==
  /\ f_src = "step5"
  /\ f_in_hi # None
  /\ f_in_hi % SalesPerVote # 0
  /\ Selects(f_filters, f_max_votes)
  /\ ~Selects(f_filters, f_max_votes + 1)
  /\ (f_max_votes + 1) * SalesPerVote > f_in_hi

=============================================================================
